---- MODULE Spec2Model ----
(***************************************************************************)
(* Model of the metadata synchronisation engine of the ExternalDNS CERN    *)
(* Cloud webhook: the alias codec (GenerateMetadata,                       *)
(* ParseEndpointsFromMetadata) and the metadata differ (DiffMetadata) of   *)
(* internal/cern/metadata.go.                                              *)
(*                                                                         *)
(* Go strings are modelled as sequences of byte values (ASCII codes), so   *)
(* that len, sort.Strings, strings.Split, strings.TrimSpace,               *)
(* strings.LastIndex, strings.HasPrefix and strings.TrimSuffix are         *)
(* computed the way the library computes them.  Go maps are functions      *)
(* whose domain is the key set.  Where Go's map iteration order decides    *)
(* the order of a returned slice, the action chooses the order.            *)
(***************************************************************************)
EXTENDS Integers, Sequences, FiniteSets, TLC

VARIABLES
    pc,          \* which call has completed in this run
    nodeIndex,   \* GenerateMetadata: argument nodeIndex
    endpoints,   \* GenerateMetadata: argument endpoints
    metadata,    \* GenerateMetadata: returned map
    roundTrip,   \* ParseEndpointsFromMetadata on one server holding `metadata`
    current,     \* DiffMetadata: argument current
    desired,     \* DiffMetadata: argument desired
    toUpdate,    \* DiffMetadata: first result
    toDelete,    \* DiffMetadata: second result
    nodes,       \* ParseEndpointsFromMetadata: argument nodes
    parsed,      \* ParseEndpointsFromMetadata: returned slice
    allServers,  \* FilterServers: argument allServers
    labelKey,    \* FilterServers: argument labelKey
    filtered,    \* FilterServers: returned slice
    store,       \* OpenStack: the metadata of every server, by server ID
    listing,     \* OpenStack: the active servers in the order the API lists them
    ingress,     \* Kubernetes: the names of the nodes that carry the ingress label
    dryRun,      \* config.DryRun
    changes,     \* the plan.Changes of the request body
    pass,        \* per request: the position and the locals of ApplyChanges
    records,     \* the last answer of Records
    failures     \* how many external calls have failed so far

\* The arguments and results of the pure functions.
codecVars == <<nodeIndex, endpoints, metadata, roundTrip,
               current, desired, toUpdate, toDelete, nodes, parsed>>
filterVars == <<allServers, labelKey, filtered>>
\* The provider, its configuration and the services it talks to.
sysVars == <<store, listing, ingress, dryRun, changes, pass, records, failures>>

vars == <<pc, codecVars, filterVars, sysVars>>

(***************************************************************************)
(* Bytes and string literals.                                              *)
(***************************************************************************)
\* ","  the separator written between aliases and split on when parsing
Comma == 44
\* "."  the suffix strings.TrimSuffix removes from a DNS name
Dot == 46
\* "-"  closes an alias after the node index
Dash == 45
\* "0"  the first decimal digit, for the %d verb
Zero == 48
\* the bytes strings.TrimSpace removes among ASCII: \t \n \v \f \r and space
WhiteSpace == {9, 10, 11, 12, 13, 32}

\* const maxMetadataLength
maxMetadataLength == 254
\* const landbAliasPrefix = "landb-alias"
landbAliasPrefix == <<108, 97, 110, 100, 98, 45, 97, 108, 105, 97, 115>>
\* the literal "--load-"
LoadMarker == <<45, 45, 108, 111, 97, 100, 45>>
\* endpoint.RecordTypeA
RecordTypeA == "A"

EmptyMap == [k \in {} |-> <<>>]

\* F(x), with x computed once before F is applied to it.
WithValue(x, F(_)) == CHOOSE r \in {F(v) : v \in {x}} : TRUE

(***************************************************************************)
(* Library functions, as the Go standard library computes them.            *)
(***************************************************************************)
\* strings.TrimSuffix(s, "."): removes one trailing "." when there is one.
TrimSuffixDot(s) ==
    IF Len(s) > 0 /\ s[Len(s)] = Dot THEN SubSeq(s, 1, Len(s) - 1) ELSE s

\* The %d verb of fmt.Sprintf: decimal digits, with a leading "-" when negative.
RECURSIVE Itoa(_)
Itoa(n) ==
    IF n < 0 THEN <<Dash>> \o Itoa(-n)
    ELSE IF n < 10 THEN <<Zero + n>>
    ELSE Itoa(n \div 10) \o <<Zero + (n % 10)>>

\* strings.HasPrefix(s, prefix)
HasPrefix(s, prefix) ==
    Len(s) >= Len(prefix) /\ SubSeq(s, 1, Len(prefix)) = prefix

\* Bytewise lexicographic order of Go strings: a < b.  The strings are compared
\* at the first position where they differ; a proper prefix is the smaller.
StrLess(a, b) ==
    LET n == IF Len(a) < Len(b) THEN Len(a) ELSE Len(b)
        d == CHOOSE i \in 1..(n + 1) :
                /\ i = n + 1 \/ a[i] # b[i]
                /\ \A j \in 1..(i - 1) : a[j] = b[j]
    IN  IF d = n + 1 THEN Len(a) < Len(b) ELSE a[d] < b[d]

\* sort.Strings left out: the aliases stay in input order.
SortStrings_Unsorted(s) == s

\* sort.Strings: ascending bytewise order (equal strings are interchangeable,
\* so the result does not depend on the algorithm's stability).
RECURSIVE InsertSorted(_, _)
InsertSorted(s, x) ==
    IF s = <<>> THEN <<x>>
    ELSE IF StrLess(x, Head(s)) THEN <<x>> \o s
    ELSE <<Head(s)>> \o InsertSorted(Tail(s), x)

RECURSIVE SortStrings(_)
SortStrings(s) ==
    IF s = <<>> THEN <<>>
    ELSE WithValue(SortStrings(SubSeq(s, 1, Len(s) - 1)),
                   LAMBDA sorted : InsertSorted(sorted, s[Len(s)]))

(***************************************************************************)
(* GenerateMetadata                                                        *)
(***************************************************************************)
\* Every key numbered, the first one too: "landb-alias1".
getMetadataKey_Numbered(index) == landbAliasPrefix \o Itoa(index)

\* getMetadataKey: "landb-alias" for index 1, "landb-alias<index>" otherwise.
getMetadataKey(index) ==
    IF index = 1 THEN landbAliasPrefix ELSE landbAliasPrefix \o Itoa(index)

\* fmt.Sprintf("%s--load-%d-", dnsName, nodeIndex)
FormatAlias(dnsName, idx) == dnsName \o LoadMarker \o Itoa(idx) \o <<Dash>>

\* The record type not tested: an alias for every endpoint.
RECURSIVE CollectAliases_AllKinds(_, _)
CollectAliases_AllKinds(idx, eps) ==
    IF eps = <<>> THEN <<>>
    ELSE <<FormatAlias(TrimSuffixDot(Head(eps).DNSName), idx)>>
         \o CollectAliases_AllKinds(idx, Tail(eps))

\* The first loop of GenerateMetadata: one alias per A record, in input order.
RECURSIVE CollectAliases(_, _)
CollectAliases(idx, eps) ==
    IF eps = <<>> THEN <<>>
    ELSE LET ep == Head(eps) IN
         (IF ep.RecordType = RecordTypeA
             THEN <<FormatAlias(TrimSuffixDot(ep.DNSName), idx)>>
             ELSE <<>>)
         \o CollectAliases(idx, Tail(eps))

\* The state the packing loop carries from one alias to the next.
PackInit ==
    [metadata |-> EmptyMap, currentKeyIndex |-> 1, builder |-> <<>>, first |-> TRUE]

\* `first` not set again after a flush: the next value starts with a comma.
PackStep_StaleFirst(st, alias) ==
    LET potentialLen == Len(st.builder) + Len(alias) + (IF st.first THEN 0 ELSE 1)
        flushed ==
            IF potentialLen > maxMetadataLength
            THEN [metadata |-> (getMetadataKey(st.currentKeyIndex) :> st.builder)
                                   @@ st.metadata,
                  currentKeyIndex |-> st.currentKeyIndex + 1,
                  builder |-> <<>>,
                  first |-> st.first]
            ELSE st
    IN  [flushed EXCEPT
            !.builder = (IF flushed.first THEN <<>> ELSE flushed.builder \o <<Comma>>)
                        \o alias,
            !.first = FALSE]

\* One iteration of the packing loop.
PackStep(st, alias) ==
    LET potentialLen == Len(st.builder) + Len(alias) + (IF st.first THEN 0 ELSE 1)
        flushed ==
            IF potentialLen > maxMetadataLength
            THEN [metadata |-> (getMetadataKey(st.currentKeyIndex) :> st.builder)
                                   @@ st.metadata,
                  currentKeyIndex |-> st.currentKeyIndex + 1,
                  builder |-> <<>>,
                  first |-> TRUE]
            ELSE st
    IN  [flushed EXCEPT
            !.builder = (IF flushed.first THEN <<>> ELSE flushed.builder \o <<Comma>>)
                        \o alias,
            !.first = FALSE]

RECURSIVE PackLoop(_, _)
PackLoop(st, aliases) ==
    IF aliases = <<>> THEN st
    ELSE WithValue(PackStep(st, Head(aliases)),
                   LAMBDA next : PackLoop(next, Tail(aliases)))

\* The flush after the loop: the remaining builder, when it is not empty.
PackFlush(st) ==
    IF Len(st.builder) > 0
    THEN (getMetadataKey(st.currentKeyIndex) :> st.builder) @@ st.metadata
    ELSE st.metadata

GenerateMetadata(idx, eps) ==
    WithValue(CollectAliases(idx, eps), LAMBDA collected :
        WithValue(SortStrings(collected), LAMBDA aliases :
            WithValue(PackLoop(PackInit, aliases), LAMBDA st : PackFlush(st))))

(***************************************************************************)
(* ParseEndpointsFromMetadata                                              *)
(***************************************************************************)
\* strings.IndexByte: position (from 1) of the first separator in s;
\* Len(s) + 1 when there is none.
IndexOf(s, sep) ==
    LET at == {i \in 1..Len(s) : s[i] = sep} IN
    IF at = {} THEN Len(s) + 1 ELSE CHOOSE i \in at : \A j \in at : i <= j

\* strings.Split(s, ","): the pieces between separators; <<"">> for "".
RECURSIVE Split(_, _)
Split(s, sep) ==
    WithValue(IndexOf(s, sep), LAMBDA k :
        IF k > Len(s) THEN <<s>>
        ELSE <<SubSeq(s, 1, k - 1)>>
             \o WithValue(SubSeq(s, k + 1, Len(s)), LAMBDA rest : Split(rest, sep)))

\* strings.TrimSpace(s): leading and trailing white space removed.
RECURSIVE TrimLeft(_)
TrimLeft(s) ==
    IF s # <<>> /\ Head(s) \in WhiteSpace THEN TrimLeft(Tail(s)) ELSE s

RECURSIVE TrimRight(_)
TrimRight(s) ==
    IF s # <<>> /\ s[Len(s)] \in WhiteSpace
    THEN TrimRight(SubSeq(s, 1, Len(s) - 1)) ELSE s

TrimSpace(s) == TrimRight(TrimLeft(s))

\* strings.Index in place of strings.LastIndex: the first occurrence.
LastIndex_First(s, substr) ==
    LET at == {i \in 0..(Len(s) - Len(substr)) :
                  SubSeq(s, i + 1, i + Len(substr)) = substr}
    IN  IF at = {} THEN -1 ELSE CHOOSE i \in at : \A j \in at : i <= j

\* strings.LastIndex(s, substr): the 0-based offset of the last occurrence of
\* substr in s, -1 when there is none.
LastIndex(s, substr) ==
    LET at == {i \in 0..(Len(s) - Len(substr)) :
                  SubSeq(s, i + 1, i + Len(substr)) = substr}
    IN  IF at = {} THEN -1 ELSE CHOOSE i \in at : \A j \in at : j <= i

\* The domains one metadata value contributes: per alias, the text before the
\* last "--load-"; nothing for an alias without the marker.
RECURSIVE DomainsOfAliases(_)
DomainsOfAliases(aliases) ==
    IF aliases = <<>> THEN {}
    ELSE WithValue(TrimSpace(Head(aliases)), LAMBDA alias :
             WithValue(LastIndex(alias, LoadMarker), LAMBDA idx :
                 IF idx # -1 THEN {SubSeq(alias, 1, idx)} ELSE {}))
         \cup DomainsOfAliases(Tail(aliases))

\* The map uniqueDomains after the loops over nodes and their metadata.
UniqueDomains(servers) ==
    UNION {UNION {WithValue(Split(servers[n].Metadata[key], Comma),
                            LAMBDA aliases : DomainsOfAliases(aliases)) :
                    key \in {k \in DOMAIN servers[n].Metadata :
                                HasPrefix(k, landbAliasPrefix)}} :
             n \in DOMAIN servers}

\* endpoint.NewEndpoint(domain, endpoint.RecordTypeA, ""): the constructor of
\* sigs.k8s.io/external-dns stores the name with one trailing "." removed
\* (strings.TrimSuffix).  The names used here have labels of at most 63 bytes,
\* which every version of the constructor accepts.
NewEndpoint(domain) ==
    [DNSName |-> TrimSuffixDot(domain), RecordType |-> RecordTypeA]

\* The sequences that list every element of S once: the orders in which a
\* range over a Go map may visit its keys.
RECURSIVE Orderings(_)
Orderings(S) ==
    IF S = {} THEN {<<>>}
    ELSE UNION {{<<x>> \o t : t \in Orderings(S \ {x})} : x \in S}

\* The slices ParseEndpointsFromMetadata may return: one endpoint per key of
\* uniqueDomains, in the map's iteration order.
ParseEndpointsFromMetadata(servers) ==
    WithValue(UniqueDomains(servers), LAMBDA uniqueDomains :
        {[i \in DOMAIN order |-> NewEndpoint(order[i])] :
            order \in Orderings(uniqueDomains)})

(***************************************************************************)
(* DiffMetadata                                                            *)
(***************************************************************************)
\* The value comparison left out: only the keys current lacks are upserted.
DiffUpdate_NewOnly(cur, des) ==
    [k \in {x \in DOMAIN des : x \notin DOMAIN cur} |-> des[k]]

\* The comparison with current left out: every key of desired is upserted.
DiffUpdate_All(cur, des) == des

\* The map toUpdate: the keys of desired that current lacks or holds with
\* another value, with their desired values.
DiffUpdate(cur, des) ==
    [k \in {x \in DOMAIN des : x \notin DOMAIN cur \/ cur[x] # des[x]} |-> des[k]]

\* The second loop left out: no key is deleted.
DiffDelete_None(cur, des) == {}

\* The prefix test left out: every key of current that desired lacks is deleted.
DiffDelete_AnyKey(cur, des) == {k \in DOMAIN cur : k \notin DOMAIN des}

\* The keys appended to toDelete: the keys of current that start with
\* landbAliasPrefix and are not keys of desired.
DiffDelete(cur, des) ==
    {k \in DOMAIN cur : HasPrefix(k, landbAliasPrefix) /\ k \notin DOMAIN des}

\* The results DiffMetadata may return: toDelete lists its keys in the order
\* the range over current visited them.
DiffMetadata(cur, des) ==
    {<<DiffUpdate(cur, des), order>> : order \in Orderings(DiffDelete(cur, des))}

\* The rearrangements of a slice: the same elements, each as often as before.
Rearrangements(seq) ==
    {[i \in DOMAIN seq |-> seq[p[i]]] : p \in Permutations(DOMAIN seq)}

\* The servers FilterServers keeps, in the order of the input: all of them for
\* an empty labelKey, otherwise those whose metadata has the key.
SelectServers(all, key) ==
    IF key = <<>> THEN all
    ELSE SelectSeq(all, LAMBDA server : key \in DOMAIN server.Metadata)

\* sort.Slice with less(i, j) = filtered[i].ID < filtered[j].ID.
SortedByID(list) ==
    \A i \in 1..(Len(list) - 1) : ~StrLess(list[i + 1].ID, list[i].ID)

FilterServers_Unsorted(all, key) == {SelectServers(all, key)}

\* The slices FilterServers may return.  sort.Slice is not stable: servers with
\* equal IDs come out in any order.
FilterServers(all, key) ==
    {list \in Rearrangements(SelectServers(all, key)) : SortedByID(list)}

(***************************************************************************)
(* Provider.ApplyChanges, Manager.GetIngressNodes, Manager.SyncState and   *)
(* Manager.UpdateNodeMetadata.                                             *)
(***************************************************************************)
StatusNoContent == 204
StatusInternalServerError == 500

\* The servers of `listed` whose Name is one of the target names, in the order
\* of the listing.
MatchingServers(listed, targetNames) ==
    SelectSeq(listed, LAMBDA server : server.Name \in targetNames)

\* What GetIngressNodes returns when both of its calls succeed.  The sorted
\* copy FilterServers makes is dropped, the slice built from the listing is
\* what the caller gets; FilterServers has no effect besides.
GetIngressNodes(listed, targetNames) ==
    LET matchingServers == MatchingServers(listed, targetNames)
        sortedCopy == FilterServers(matchingServers, <<>>)
    IN  matchingServers

\* delete(desiredMap, ep.DNSName) for each endpoint of the list
RECURSIVE DeleteAll(_, _)
DeleteAll(m, eps) ==
    IF eps = <<>> THEN m
    ELSE DeleteAll([k \in DOMAIN m \ {Head(eps).DNSName} |-> m[k]], Tail(eps))

\* desiredMap[ep.DNSName] = ep for each endpoint of the list
RECURSIVE SetAll(_, _)
SetAll(m, eps) ==
    IF eps = <<>> THEN m
    ELSE SetAll((Head(eps).DNSName :> Head(eps)) @@ m, Tail(eps))

DesiredMap_DeleteLast(currentEndpoints, ch) ==
    DeleteAll(DeleteAll(SetAll(SetAll(SetAll(EmptyMap, currentEndpoints),
                                      ch.UpdateNew), ch.Create),
                        ch.Delete), ch.UpdateOld)

\* The desiredMap of ApplyChanges after its five loops.
DesiredMap(currentEndpoints, ch) ==
    SetAll(SetAll(DeleteAll(DeleteAll(SetAll(EmptyMap, currentEndpoints),
                                      ch.Delete), ch.UpdateOld),
                  ch.UpdateNew), ch.Create)

\* The slices "convert map back to slice" may give: the values of the map in
\* the map's iteration order.
DesiredEndpoints(m) ==
    {[i \in DOMAIN order |-> m[order[i]]] : order \in Orderings(DOMAIN m)}

\* An upsert that leaves the keys the server already holds as they are.
UpdateMetadata_KeepOld(md, opts) == md @@ opts

\* servers.UpdateMetadata: the keys of opts are created or replaced, the other
\* keys of the server stay.
UpdateMetadata(md, opts) == opts @@ md

\* servers.DeleteMetadatum: the key is gone.
DeleteMetadatum(md, key) == [k \in DOMAIN md \ {key} |-> md[k]]

StatusOK == 200

\* Records has not been called.
NoAnswer == [status |-> 0, endpoints |-> <<>>]

\* What Records writes: the error with status 500, or the endpoints.
RecordsAnswer(failed, eps) ==
    IF failed THEN [status |-> StatusInternalServerError, endpoints |-> <<>>]
    ELSE [status |-> StatusOK, endpoints |-> eps]

\* A request at rest.
IdlePass ==
    [pc |-> "idle", nodes |-> <<>>, endpoints |-> <<>>, pos |-> 0,
     toUpdate |-> EmptyMap, toDelete |-> <<>>, log |-> <<>>, status |-> 0,
     ctxDone |-> FALSE]

\* One metadata call as the log keeps it; ctxDone tells whether the context of
\* the request was done when the call was made.
Call(r, op, keys, ok) ==
    [pos |-> r.pos, id |-> r.nodes[r.pos].ID, op |-> op, keys |-> keys, ok |-> ok,
     ctxDone |-> r.ctxDone]

Dispatch_AlwaysSync(dry, r) ==
    [r EXCEPT !.pc = "sync", !.pos = 1]

\* Step 4 of ApplyChanges: with DryRun nothing is synced and the answer is 204.
Dispatch(dry, r) ==
    IF dry THEN [r EXCEPT !.pc = "done", !.status = StatusNoContent]
    ELSE [r EXCEPT !.pc = "sync", !.pos = 1]

OnError_NoContent(r) ==
    [r EXCEPT !.pc = "done", !.status = StatusNoContent]

OnError_Continue(r) ==
    [r EXCEPT !.pc = "sync", !.pos = @ + 1, !.toUpdate = EmptyMap,
              !.toDelete = <<>>]

\* An error of UpdateNodeMetadata goes up through SyncState to ApplyChanges,
\* which answers 500.
OnError(r) ==
    [r EXCEPT !.pc = "done", !.status = StatusInternalServerError]

\* The loop of SyncState stepping back to the node before.
AfterCall_StepBack(r, rest) ==
    IF rest # <<>> THEN [r EXCEPT !.pc = "delete", !.toDelete = rest]
    ELSE [r EXCEPT !.pc = "sync", !.pos = IF @ > 1 THEN @ - 1 ELSE @ + 1,
                   !.toUpdate = EmptyMap, !.toDelete = <<>>]

\* UpdateNodeMetadata after its upsert: the deletes, or back to the loop of
\* SyncState when there is nothing (more) to delete.
AfterCall(r, rest) ==
    IF rest # <<>> THEN [r EXCEPT !.pc = "delete", !.toDelete = rest]
    ELSE [r EXCEPT !.pc = "sync", !.pos = @ + 1, !.toUpdate = EmptyMap,
                   !.toDelete = <<>>]

FirstCall_DeleteFirst(r, upserts, deletes) ==
    AfterCall([r EXCEPT !.toUpdate = upserts], deletes)

\* UpdateNodeMetadata from its entry: the upsert when toUpdate has a key, the
\* deletes otherwise.
FirstCall(r, upserts, deletes) ==
    IF DOMAIN upserts # {}
    THEN [r EXCEPT !.pc = "upsert", !.toUpdate = upserts, !.toDelete = deletes]
    ELSE AfterCall(r, deletes)

(***************************************************************************)
(* Inputs of the bounded checks.                                           *)
(***************************************************************************)
\* The longest endpoint list handed to GenerateMetadata.
MaxEndpoints == 3
\* The largest node index (two decimal digits).
MaxNodeIndex == 10

NodeIndexes == {0, 1, MaxNodeIndex}

\* A DNS label: n times the byte c.
Label(c, n) == [i \in 1..n |-> c]

\* "a", "b", "b." (fully qualified), "t"
NameA == <<97>>
NameB == <<98>>
NameBDot == <<98, 46>>
NameT == <<116>>
\* "a--load-b": a host name that contains the marker itself
NameMarked == <<97>> \o LoadMarker \o <<98>>
\* 117 and 118 bytes: with a one-digit index two aliases fill a value up to
\* 253, 254 or 255 bytes
NameLong117 == Label(109, 58) \o <<Dot>> \o Label(109, 58)
NameLong118 == Label(110, 58) \o <<Dot>> \o Label(110, 59)
\* 247 bytes in four labels: its alias alone is longer than 254 bytes
NameOver == Label(111, 61) \o <<Dot>> \o Label(111, 61) \o <<Dot>>
            \o Label(111, 61) \o <<Dot>> \o Label(111, 61)

ANames == {NameA, NameB, NameBDot, NameMarked, NameLong117, NameLong118, NameOver}

EndpointUniverse ==
    {[DNSName |-> n, RecordType |-> RecordTypeA] : n \in ANames}
    \cup {[DNSName |-> NameT, RecordType |-> "TXT"]}

SeqsUpTo(S, n) == UNION {[1..k -> S] : k \in 0..n}

EndpointLists == SeqsUpTo(EndpointUniverse, MaxEndpoints)

\* The number of distinct values a metadata key may hold in the differ's inputs.
MaxValues == 2

\* Keys: "landb-alias", "landb-alias2", "landb" (shorter than the prefix), "other"
KeyAlias == landbAliasPrefix
KeyAlias2 == landbAliasPrefix \o <<50>>
KeyLandb == <<108, 97, 110, 100, 98>>
KeyOther == <<111, 116, 104, 101, 114>>

DiffKeys == {KeyAlias, KeyAlias2, KeyLandb, KeyOther}

\* Values: "a", "b", ...
DiffValues == {<<96 + i>> : i \in 1..MaxValues}

\* Every map from a subset of K to V.
MapsOver(K, V) == UNION {[D -> V] : D \in SUBSET K}

MetadataMaps == MapsOver(DiffKeys, DiffValues)

\* The longest server list handed to ParseEndpointsFromMetadata.
MaxNodes == 2

\* Join of two metadata values with a comma.
Joined(a, b) == a \o <<Comma>> \o b

\* Aliases and foreign text found in metadata values:
\* "a--load-0-", "a--load-1-", "b--load-0-", "a--load-b--load-0-",
\* " b--load-1- " (padded with spaces), "b.--load-0-" (a name that kept a
\* trailing dot), "junk" (no marker), "" (empty)
TokA0 == FormatAlias(NameA, 0)
TokA1 == FormatAlias(NameA, 1)
TokB0 == FormatAlias(NameB, 0)
TokMarked0 == FormatAlias(NameMarked, 0)
TokBPadded == <<32>> \o FormatAlias(NameB, 1) \o <<32>>
TokBDot0 == FormatAlias(NameBDot, 0)
TokJunk == <<106, 117, 110, 107>>

\* The servers the parser is run on: their metadata mixes keys of the family,
\* foreign keys, well-formed aliases and foreign text.
ServerPool ==
    { [ID |-> <<49>>, Metadata |-> EmptyMap],
      [ID |-> <<50>>, Metadata |-> (KeyAlias :> TokA0)],
      [ID |-> <<51>>, Metadata |-> (KeyAlias :> Joined(TokA1, TokBPadded))],
      [ID |-> <<52>>, Metadata |-> (KeyAlias :> TokA0) @@ (KeyAlias2 :> TokB0)],
      [ID |-> <<53>>, Metadata |-> (KeyAlias :> Joined(TokJunk, TokMarked0))
                                    @@ (KeyOther :> TokB0)],
      [ID |-> <<54>>, Metadata |-> (KeyAlias :> <<>>) @@ (KeyLandb :> TokA0)
                                    @@ (KeyAlias2 :> Joined(TokMarked0, TokJunk))],
      [ID |-> <<55>>, Metadata |-> (KeyAlias2 :> TokBDot0)] }

ServerLists == SeqsUpTo(ServerPool, MaxNodes)

\* The servers FilterServers is run on: IDs "1", "10", "2" (bytewise order
\* differs from numeric order), with and without the label key "other"; two
\* servers share the ID "2".
FilterPool ==
    { [ID |-> <<49>>, Metadata |-> (KeyOther :> <<120>>)],
      [ID |-> <<49, 48>>, Metadata |-> (KeyOther :> <<>>) @@ (KeyAlias :> TokA0)],
      [ID |-> <<50>>, Metadata |-> EmptyMap],
      [ID |-> <<50>>, Metadata |-> (KeyOther :> <<121>>)],
      [ID |-> <<51>>, Metadata |-> (KeyAlias :> TokA0)] }

FilterLists == SeqsUpTo(FilterPool, MaxNodes)

\* "", "other" (held by some servers), "landb" (held by none)
LabelKeys == {<<>>, KeyOther, KeyLandb}

\* The most calls that fail in one run.
MaxFailures == 1
\* The most endpoints one change set names.
MaxChanges == 2

\* The requests: ApplyChanges calls that may be in progress.
Requests == {1, 2}

\* Server names "n1", "n2" (Kubernetes nodes with the ingress label) and "x"
NodeN1 == <<110, 49>>
NodeN2 == <<110, 50>>
NodeX == <<120>>

\* The active servers of the project, with IDs "1", "2", "3".
Servers ==
    { [ID |-> <<49>>, Name |-> NodeN1],
      [ID |-> <<50>>, Name |-> NodeN2],
      [ID |-> <<51>>, Name |-> NodeX] }

ServerIDs == {server.ID : server \in Servers}

\* Metadata found on the servers before the first request: nothing; the
\* aliases of "a" for the indexes 0 and 1 next to a foreign key; two keys of the
\* family on one node and an alias on a server that is not an ingress node.
InitialStores ==
    { [id \in ServerIDs |-> EmptyMap],
      (<<49>> :> ((KeyOther :> <<120>>) @@ (KeyAlias :> TokA0)))
        @@ (<<50>> :> (KeyAlias :> TokA1)) @@ (<<51>> :> (KeyOther :> <<121>>)),
      (<<49>> :> ((KeyAlias :> TokA0) @@ (KeyAlias2 :> TokA1)))
        @@ (<<50>> :> ((KeyLandb :> <<120>>) @@ (KeyAlias :> TokA1)))
        @@ (<<51>> :> (KeyAlias :> TokB0)) }

\* The endpoints the change sets name: A "a", TXT "a" and A "b.".
ChangeEndpoints ==
    { [DNSName |-> NameA, RecordType |-> RecordTypeA],
      [DNSName |-> NameA, RecordType |-> "TXT"],
      [DNSName |-> NameBDot, RecordType |-> RecordTypeA] }

\* The orders in which OpenStack lists the servers: the two ingress nodes
\* either way round, the third server between them.
Listings == {l \in Orderings(Servers) : l[2].Name = NodeX}

NoChanges == [Create |-> <<>>, UpdateOld |-> <<>>, UpdateNew |-> <<>>, Delete |-> <<>>]

\* plan.Changes with at most MaxChanges endpoints in all; as in the plans of
\* external-dns, every endpoint of UpdateOld has its new version in UpdateNew.
ChangeSets ==
    {ch \in [Create : SeqsUpTo(ChangeEndpoints, MaxChanges),
             UpdateOld : SeqsUpTo(ChangeEndpoints, MaxChanges),
             UpdateNew : SeqsUpTo(ChangeEndpoints, MaxChanges),
             Delete : SeqsUpTo(ChangeEndpoints, MaxChanges)] :
        /\ Len(ch.UpdateOld) = Len(ch.UpdateNew)
        /\ Len(ch.Create) + Len(ch.UpdateOld) + Len(ch.UpdateNew) + Len(ch.Delete)
              <= MaxChanges}

(***************************************************************************)
(* The parts of the state a specification does not use stay as they are    *)
(* here.                                                                   *)
(***************************************************************************)
CodecIdle ==
    /\ nodeIndex = 0
    /\ endpoints = <<>>
    /\ metadata = EmptyMap
    /\ roundTrip = <<>>
    /\ current = EmptyMap
    /\ desired = EmptyMap
    /\ toUpdate = EmptyMap
    /\ toDelete = <<>>
    /\ nodes = <<>>
    /\ parsed = <<>>

FilterIdle ==
    /\ allServers = <<>>
    /\ labelKey = <<>>
    /\ filtered = <<>>

SysIdle ==
    /\ store = EmptyMap
    /\ listing = <<>>
    /\ ingress = {}
    /\ dryRun = FALSE
    /\ changes = [p \in Requests |-> NoChanges]
    /\ pass = [p \in Requests |-> IdlePass]
    /\ records = NoAnswer
    /\ failures = 0

(***************************************************************************)
(* Specification of the codec: GenerateMetadata on a drawn input, then     *)
(* ParseEndpointsFromMetadata on one server that holds the generated map.  *)
(***************************************************************************)
InitEncode ==
    /\ pc = "start"
    /\ nodeIndex \in NodeIndexes
    /\ endpoints \in EndpointLists
    /\ metadata = EmptyMap
    /\ roundTrip = <<>>
    /\ current = EmptyMap
    /\ desired = EmptyMap
    /\ toUpdate = EmptyMap
    /\ toDelete = <<>>
    /\ nodes = <<>>
    /\ parsed = <<>>
    /\ FilterIdle
    /\ SysIdle

Encode ==
    /\ pc = "start"
    /\ metadata' = GenerateMetadata(nodeIndex, endpoints)
    /\ pc' = "encoded"
    /\ UNCHANGED <<nodeIndex, endpoints, roundTrip,
                   current, desired, toUpdate, toDelete, nodes, parsed>>
    /\ UNCHANGED <<filterVars, sysVars>>

DecodeEncoded ==
    /\ pc = "encoded"
    /\ roundTrip' \in ParseEndpointsFromMetadata(<<[ID |-> <<>>, Metadata |-> metadata]>>)
    /\ pc' = "decoded"
    /\ UNCHANGED <<nodeIndex, endpoints, metadata,
                   current, desired, toUpdate, toDelete, nodes, parsed>>
    /\ UNCHANGED <<filterVars, sysVars>>

NextEncode == Encode \/ DecodeEncoded

SpecEncode == InitEncode /\ [][NextEncode]_vars

(***************************************************************************)
(* Specification of the differ: DiffMetadata on a drawn pair of maps.      *)
(***************************************************************************)
InitDiff ==
    /\ pc = "start"
    /\ current \in MetadataMaps
    /\ desired \in MetadataMaps
    /\ toUpdate = EmptyMap
    /\ toDelete = <<>>
    /\ nodeIndex = 0
    /\ endpoints = <<>>
    /\ metadata = EmptyMap
    /\ roundTrip = <<>>
    /\ nodes = <<>>
    /\ parsed = <<>>
    /\ FilterIdle
    /\ SysIdle

Diff ==
    /\ pc = "start"
    /\ \E res \in DiffMetadata(current, desired) :
          /\ toUpdate' = res[1]
          /\ toDelete' = res[2]
    /\ pc' = "diffed"
    /\ UNCHANGED <<nodeIndex, endpoints, metadata, roundTrip,
                   current, desired, nodes, parsed>>
    /\ UNCHANGED <<filterVars, sysVars>>

NextDiff == Diff

SpecDiff == InitDiff /\ [][NextDiff]_vars

(***************************************************************************)
(* Specification of the parser: ParseEndpointsFromMetadata on a drawn      *)
(* list of servers.                                                        *)
(***************************************************************************)
InitDecode ==
    /\ pc = "start"
    /\ nodes \in ServerLists
    /\ parsed = <<>>
    /\ nodeIndex = 0
    /\ endpoints = <<>>
    /\ metadata = EmptyMap
    /\ roundTrip = <<>>
    /\ current = EmptyMap
    /\ desired = EmptyMap
    /\ toUpdate = EmptyMap
    /\ toDelete = <<>>
    /\ FilterIdle
    /\ SysIdle

Decode ==
    /\ pc = "start"
    /\ parsed' \in ParseEndpointsFromMetadata(nodes)
    /\ pc' = "parsed"
    /\ UNCHANGED <<nodeIndex, endpoints, metadata, roundTrip,
                   current, desired, toUpdate, toDelete, nodes>>
    /\ UNCHANGED <<filterVars, sysVars>>

NextDecode == Decode

SpecDecode == InitDecode /\ [][NextDecode]_vars

(***************************************************************************)
(* Specification of the server filter: one run is one call of              *)
(* FilterServers.                                                          *)
(***************************************************************************)
InitFilter ==
    /\ pc = "start"
    /\ allServers \in FilterLists
    /\ labelKey \in LabelKeys
    /\ filtered = <<>>
    /\ CodecIdle
    /\ SysIdle

Filter ==
    /\ pc = "start"
    /\ filtered' \in FilterServers(allServers, labelKey)
    /\ pc' = "filtered"
    /\ UNCHANGED <<allServers, labelKey, codecVars, sysVars>>

NextFilter == Filter

SpecFilter == InitFilter /\ [][NextFilter]_vars

(***************************************************************************)
(* Specification of the provider: request 1 sends the same change set to   *)
(* ApplyChanges again and again; OpenStack lists the servers in one order. *)
(***************************************************************************)
Init ==
    /\ pc = "serving"
    /\ store \in InitialStores
    /\ listing \in Listings
    /\ ingress = {NodeN1, NodeN2}
    /\ dryRun \in BOOLEAN
    /\ changes \in {[p \in Requests |-> IF p = 1 THEN ch ELSE NoChanges] :
                       ch \in ChangeSets}
    /\ pass = [p \in Requests |-> IdlePass]
    /\ records = NoAnswer
    /\ failures = 0
    /\ CodecIdle
    /\ FilterIdle

\* The servers as servers.List gives them: in the order of the listing, with
\* the metadata they hold now.
Listed ==
    [i \in DOMAIN listing |->
        [ID |-> listing[i].ID, Name |-> listing[i].Name,
         Metadata |-> store[listing[i].ID]]]

\* ApplyChanges up to the call of SyncState: the nodes are listed, the current
\* endpoints parsed, and the desired endpoints computed.
List(p) ==
    /\ pass[p].pc \in {"idle", "done"}
    /\ \E ingressNodes \in {GetIngressNodes(Listed, ingress)} :
         \E currentEndpoints \in ParseEndpointsFromMetadata(ingressNodes) :
            \E desiredMap \in {DesiredMap(currentEndpoints, changes[p])} :
               \E desiredEndpoints \in DesiredEndpoints(desiredMap) :
                  pass' = [pass EXCEPT ![p] =
                             Dispatch(dryRun,
                                      [IdlePass EXCEPT
                                          !.nodes = ingressNodes,
                                          !.endpoints = desiredEndpoints])]
    /\ UNCHANGED <<pc, codecVars, filterVars, records, store, listing, ingress, dryRun,
                   changes, failures>>

\* GetIngressNodes fails, in the Kubernetes call or in the OpenStack listing:
\* ApplyChanges answers 500.
ListFail(p) ==
    /\ pass[p].pc \in {"idle", "done"}
    /\ failures < MaxFailures
    /\ failures' = failures + 1
    /\ pass' = [pass EXCEPT ![p] = OnError(IdlePass)]
    /\ UNCHANGED <<pc, codecVars, filterVars, records, store, listing, ingress, dryRun,
                   changes>>

\* One turn of the loop of SyncState, up to the first call of
\* UpdateNodeMetadata: the desired metadata and the diff against the metadata
\* of the snapshot.
SyncNode(p) ==
    LET r == pass[p]
    IN  /\ r.pc = "sync"
        /\ r.pos <= Len(r.nodes)
        /\ \E desiredMetadata \in {GenerateMetadata(r.pos - 1, r.endpoints)} :
              \E res \in DiffMetadata(r.nodes[r.pos].Metadata, desiredMetadata) :
                 pass' = [pass EXCEPT ![p] = FirstCall(r, res[1], res[2])]
        /\ UNCHANGED <<pc, codecVars, filterVars, records, store, listing, ingress,
                       dryRun, changes, failures>>

\* The loop of SyncState is over: SyncState returns nil, ApplyChanges answers
\* 204.
Finish(p) ==
    LET r == pass[p]
    IN  /\ r.pc = "sync"
        /\ r.pos > Len(r.nodes)
        /\ pass' = [pass EXCEPT ![p] =
                      [r EXCEPT !.pc = "done", !.status = StatusNoContent]]
        /\ UNCHANGED <<pc, codecVars, filterVars, records, store, listing, ingress,
                       dryRun, changes, failures>>

\* servers.UpdateMetadata succeeds.
Upsert(p) ==
    LET r == pass[p]
        id == r.nodes[r.pos].ID
    IN  /\ r.pc = "upsert"
        /\ store' = [store EXCEPT ![id] = UpdateMetadata(@, r.toUpdate)]
        /\ pass' = [pass EXCEPT ![p] =
                      AfterCall([r EXCEPT !.log =
                                    Append(@, Call(r, "upsert", DOMAIN r.toUpdate, TRUE))],
                                r.toDelete)]
        /\ UNCHANGED <<pc, codecVars, filterVars, records, listing, ingress, dryRun,
                       changes, failures>>

\* servers.UpdateMetadata fails.
UpsertFail(p) ==
    LET r == pass[p]
    IN  /\ r.pc = "upsert"
        /\ failures < MaxFailures
        /\ failures' = failures + 1
        /\ pass' = [pass EXCEPT ![p] =
                      OnError([r EXCEPT !.log =
                                  Append(@, Call(r, "upsert", DOMAIN r.toUpdate, FALSE))])]
        /\ UNCHANGED <<pc, codecVars, filterVars, records, store, listing, ingress,
                       dryRun, changes>>

\* servers.DeleteMetadatum succeeds for the next key of toDelete: the server
\* holds the key.
Delete(p) ==
    LET r == pass[p]
        id == r.nodes[r.pos].ID
        key == Head(r.toDelete)
    IN  /\ r.pc = "delete"
        /\ key \in DOMAIN store[id]
        /\ store' = [store EXCEPT ![id] = DeleteMetadatum(@, key)]
        /\ pass' = [pass EXCEPT ![p] =
                      AfterCall([r EXCEPT !.log =
                                    Append(@, Call(r, "delete", {key}, TRUE))],
                                Tail(r.toDelete))]
        /\ UNCHANGED <<pc, codecVars, filterVars, records, listing, ingress, dryRun,
                       changes, failures>>

\* servers.DeleteMetadatum fails for the next key of toDelete.
DeleteFail(p) ==
    LET r == pass[p]
        key == Head(r.toDelete)
    IN  /\ r.pc = "delete"
        /\ failures < MaxFailures
        /\ failures' = failures + 1
        /\ pass' = [pass EXCEPT ![p] =
                      OnError([r EXCEPT !.log =
                                  Append(@, Call(r, "delete", {key}, FALSE))])]
        /\ UNCHANGED <<pc, codecVars, filterVars, records, store, listing, ingress,
                       dryRun, changes>>

Next ==
    \/ List(1)
    \/ ListFail(1)
    \/ SyncNode(1)
    \/ Finish(1)
    \/ Upsert(1)
    \/ UpsertFail(1)
    \/ Delete(1)
    \/ DeleteFail(1)

Spec == Init /\ [][Next]_vars

(***************************************************************************)
(* Specification of the retries: the provider syncs for real, external-dns *)
(* sends its change set (creations and deletions) until nothing is left to *)
(* do, and the server goes on answering.                                   *)
(***************************************************************************)
RetryChangeSets ==
    {ch \in ChangeSets :
        /\ ch.UpdateOld = <<>> /\ ch.UpdateNew = <<>>
        /\ Len(ch.Create) <= Len(<<NameA>>) /\ Len(ch.Delete) <= Len(<<NameA>>)}

InitRetry ==
    /\ Init
    /\ ~dryRun
    /\ changes[1] \in RetryChangeSets

SpecRetry == InitRetry /\ [][Next]_vars /\ WF_vars(Next)

(***************************************************************************)
(* Specification of the two handlers of /records: ApplyChanges as above,   *)
(* and Records, which external-dns calls at any time.                      *)
(***************************************************************************)
\* Records answers with the endpoints parsed from the ingress nodes.
Records ==
    /\ \E ingressNodes \in {GetIngressNodes(Listed, ingress)} :
         \E eps \in ParseEndpointsFromMetadata(ingressNodes) :
            records' = RecordsAnswer(FALSE, eps)
    /\ UNCHANGED <<pc, codecVars, filterVars, store, listing, ingress, dryRun,
                   changes, pass, failures>>

\* GetIngressNodes fails: Records answers 500.
RecordsFail ==
    /\ failures < MaxFailures
    /\ failures' = failures + 1
    /\ records' = RecordsAnswer(TRUE, <<>>)
    /\ UNCHANGED <<pc, codecVars, filterVars, store, listing, ingress, dryRun,
                   changes, pass>>

NextServe ==
    \/ Next
    \/ Records
    \/ RecordsFail

SpecServe == InitRetry /\ [][NextServe]_vars

(***************************************************************************)
(* Specification with cancellation: the context of the request (r.Context) *)
(* may be cancelled while SyncState runs.  SyncState and                   *)
(* UpdateNodeMetadata take ctx and never read it; the gophercloud calls    *)
(* are made without it.                                                    *)
(***************************************************************************)
Cancel(p) ==
    /\ pass[p].pc \in {"sync", "upsert", "delete"}
    /\ ~pass[p].ctxDone
    /\ pass' = [pass EXCEPT ![p].ctxDone = TRUE]
    /\ UNCHANGED <<pc, codecVars, filterVars, records, store, listing, ingress,
                   dryRun, changes, failures>>

NextCancel ==
    \/ Next
    \/ Cancel(1)

SpecCancel == InitRetry /\ [][NextCancel]_vars

(***************************************************************************)
(* Specification with another writer: between the listing and the calls of *)
(* a pass, somebody else sets or removes a key of an ingress node in       *)
(* OpenStack.  SyncState works on node.Metadata, the metadata of the       *)
(* listing.                                                                *)
(***************************************************************************)
\* What the other writer does to the metadata of one server.
OtherWrites(md) ==
    { UpdateMetadata(md, KeyAlias2 :> TokB0), DeleteMetadatum(md, KeyAlias) }

\* The other writer changes the metadata of an ingress node that request 1
\* has listed and SyncState has not processed yet.
OtherWrite ==
    /\ pass[1].pc = "sync"
    /\ \E i \in pass[1].pos .. Len(pass[1].nodes) :
          \E md \in OtherWrites(store[pass[1].nodes[i].ID]) :
             /\ md # store[pass[1].nodes[i].ID]
             /\ store' = [store EXCEPT ![pass[1].nodes[i].ID] = md]
    /\ UNCHANGED <<pc, codecVars, filterVars, records, listing, ingress, dryRun,
                   changes, pass, failures>>

\* servers.DeleteMetadatum for a key the server no longer holds: Nova answers
\* 404, gophercloud returns the error.
DeleteGone(p) ==
    LET r == pass[p]
        id == r.nodes[r.pos].ID
        key == Head(r.toDelete)
    IN  /\ r.pc = "delete"
        /\ key \notin DOMAIN store[id]
        /\ pass' = [pass EXCEPT ![p] =
                      OnError([r EXCEPT !.log =
                                  Append(@, Call(r, "delete", {key}, FALSE))])]
        /\ UNCHANGED <<pc, codecVars, filterVars, records, store, listing, ingress,
                       dryRun, changes, failures>>

NextWriter ==
    \/ Next
    \/ OtherWrite
    \/ DeleteGone(1)

SpecWriter == InitRetry /\ [][NextWriter]_vars

(***************************************************************************)
(* Specification of two overlapping requests: net/http serves every        *)
(* request in a goroutine of its own and the provider holds no lock, so    *)
(* the steps of two calls of ApplyChanges interleave freely.  Each request *)
(* is sent once.  Request 2 deletes no key, so no delete meets a key that  *)
(* is gone.                                                                *)
(***************************************************************************)
\* Request 1 creates "a"; request 2 creates two long names, whose tokens fill
\* one metadata value by themselves and need a second key next to another
\* token.
OverlapChanges ==
    (1 :> [NoChanges EXCEPT !.Create =
              << [DNSName |-> NameA, RecordType |-> RecordTypeA] >>])
    @@ (2 :> [NoChanges EXCEPT !.Create =
              << [DNSName |-> NameLong117, RecordType |-> RecordTypeA],
                 [DNSName |-> NameLong118, RecordType |-> RecordTypeA] >>])

InitOverlap ==
    /\ pc = "serving"
    /\ store \in InitialStores
    /\ listing \in Listings
    /\ ingress = {NodeN1, NodeN2}
    /\ dryRun = FALSE
    /\ changes = OverlapChanges
    /\ pass = [p \in Requests |-> IdlePass]
    /\ records = NoAnswer
    /\ failures = 0
    /\ CodecIdle
    /\ FilterIdle

\* The request arrives: ApplyChanges lists the nodes.
Arrive(p) ==
    /\ pass[p].pc = "idle"
    /\ List(p)

\* The request arrives and GetIngressNodes fails.
ArriveFail(p) ==
    /\ pass[p].pc = "idle"
    /\ ListFail(p)

NextOverlap ==
    \E p \in Requests :
       \/ Arrive(p)
       \/ ArriveFail(p)
       \/ SyncNode(p)
       \/ Finish(p)
       \/ Upsert(p)
       \/ UpsertFail(p)
       \/ Delete(p)
       \/ DeleteFail(p)

SpecOverlap == InitOverlap /\ [][NextOverlap]_vars

(***************************************************************************)
(* Specification with a changing node set: between two requests the label  *)
(* of the ingress role is put on or taken off Kubernetes nodes.  At the     *)
(* start only ingress nodes hold keys of the family.                       *)
(***************************************************************************)
\* The sets of nodes that carry the ingress label.
IngressSets == (SUBSET {NodeN1, NodeN2}) \ {{}}

InitNodes ==
    /\ InitRetry
    /\ \A i \in DOMAIN listing :
          listing[i].Name \notin ingress =>
             \A k \in DOMAIN store[listing[i].ID] : ~HasPrefix(k, landbAliasPrefix)

\* The label selector matches another set of nodes from now on.
Relabel ==
    /\ pass[1].pc \in {"idle", "done"}
    /\ \E s \in IngressSets :
          /\ s # ingress
          /\ ingress' = s
    /\ UNCHANGED <<pc, codecVars, filterVars, records, store, listing, dryRun,
                   changes, pass, failures>>

NextNodes ==
    \/ Next
    \/ Relabel

SpecNodes == InitNodes /\ [][NextNodes]_vars

(***************************************************************************)
(* Properties of GenerateMetadata (specification SpecEncode).              *)
(***************************************************************************)
IsA(ep) == ep.RecordType = RecordTypeA

\* The DNS names of a list of endpoints, as a set.
NamesOf(eps) == {eps[i].DNSName : i \in DOMAIN eps}

\* C1. Packing bound: every value of the map GenerateMetadata returned is at
\* most 254 bytes long, whatever the node index and the endpoint list.
C1_PackingBound ==
    pc # "start" => \A k \in DOMAIN metadata : Len(metadata[k]) <= 254

\* C2. Round trip: for a list of A endpoints, parsing one server that holds
\* the generated map returns exactly the DNS names of the list, each with one
\* trailing dot stripped, and each name once.
C2_RoundTrip ==
    (pc = "decoded" /\ \A i \in DOMAIN endpoints : IsA(endpoints[i])) =>
        /\ NamesOf(roundTrip) = {TrimSuffixDot(n) : n \in NamesOf(endpoints)}
        /\ \A i, j \in DOMAIN roundTrip :
              roundTrip[i].DNSName = roundTrip[j].DNSName => i = j

\* Witness of C2: a decoded list of A endpoints that names a host with and
\* without its trailing dot and a host that contains the marker itself.
C2_Witness ==
    /\ pc = "decoded"
    /\ \A i \in DOMAIN endpoints : IsA(endpoints[i])
    /\ {NameB, NameBDot, NameMarked} \subseteq NamesOf(endpoints)
    /\ NamesOf(roundTrip) = {NameB, NameMarked}

\* The list eps read in the order p, a permutation of its positions.
Permuted(eps, p) == [i \in DOMAIN eps |-> eps[p[i]]]

\* C3. Determinism: every permutation of the endpoint list gives the same map,
\* the same keys with the same values.
C3_PermutationInvariant ==
    pc = "encoded" =>
        \A p \in Permutations(DOMAIN endpoints) :
            GenerateMetadata(nodeIndex, Permuted(endpoints, p)) = metadata

\* Witness of C3: an input whose A names are not in sorted order and whose
\* map has more than one key.
C3_Witness ==
    /\ pc = "encoded"
    /\ Len(endpoints) >= 3
    /\ \E i \in DOMAIN endpoints : \E j \in DOMAIN endpoints :
          /\ i < j /\ IsA(endpoints[i]) /\ IsA(endpoints[j])
          /\ StrLess(endpoints[j].DNSName, endpoints[i].DNSName)
    /\ Cardinality(DOMAIN metadata) >= 2

\* C7. Only A records take part: the map is the one generated from the sub-list
\* of A endpoints, and it has no key at all when that sub-list is empty.
C7_OnlyARecords ==
    pc = "encoded" =>
        LET kept == SelectSeq(endpoints, IsA) IN
        /\ metadata = GenerateMetadata(nodeIndex, kept)
        /\ kept = <<>> => DOMAIN metadata = {}

\* Witness of C7: an encoded list that holds a TXT endpoint between A endpoints.
C7_Witness ==
    /\ pc = "encoded"
    /\ \E i, j \in DOMAIN endpoints :
          i < j /\ ~IsA(endpoints[i]) /\ IsA(endpoints[j])
    /\ DOMAIN metadata # {}

\* The j-th key of the family: "landb-alias", then "landb-alias2", "landb-alias3", ...
FamilyKey(j) == IF j = 1 THEN landbAliasPrefix ELSE landbAliasPrefix \o Itoa(j)

\* C8. Key family: the keys of the generated map are "landb-alias",
\* "landb-alias2", ..., "landb-alias<k>" for some k >= 0, none skipped.
C8_ContiguousKeys ==
    pc = "encoded" =>
        DOMAIN metadata = {FamilyKey(j) : j \in 1..Cardinality(DOMAIN metadata)}

\* Witness of C8: a generated map with at least three keys.
C8_Witness ==
    /\ pc = "encoded"
    /\ Cardinality(DOMAIN metadata) >= 3

\* The comma-separated tokens of a value; the empty value holds none.
TokensOf(v) == IF v = <<>> THEN <<>> ELSE Split(v, Comma)

\* The token lists of keys j..k of the family, one after the other.
RECURSIVE TokensFrom(_, _, _)
TokensFrom(md, j, k) ==
    IF j > k THEN <<>> ELSE TokensOf(md[FamilyKey(j)]) \o TokensFrom(md, j + 1, k)

\* A list of strings in ascending (non-decreasing) bytewise order.
Ascending(seq) == \A i \in 1..(Len(seq) - 1) : ~StrLess(seq[i + 1], seq[i])

\* How many entries of seq equal x.
Count(seq, x) == Cardinality({i \in DOMAIN seq : seq[i] = x})

\* The token "<dnsName>--load-<nodeIndex>-" of an endpoint at index idx.
TokenOf(ep, idx) == TrimSuffixDot(ep.DNSName) \o LoadMarker \o Itoa(idx) \o <<Dash>>

\* C9. Sorted tokens: in every value the tokens are in ascending order, and the
\* token lists of landb-alias, landb-alias2, ... read in key order are the
\* sorted list of the tokens of the A endpoints, each token in one value only
\* (as often as the endpoint list names it).
C9_SortedTokens ==
    pc = "encoded" =>
        LET k == Cardinality(DOMAIN metadata)
            wanted == [i \in DOMAIN SelectSeq(endpoints, IsA) |->
                          TokenOf(SelectSeq(endpoints, IsA)[i], nodeIndex)]
        IN  /\ \A key \in DOMAIN metadata : Ascending(TokensOf(metadata[key]))
            /\ DOMAIN metadata = {FamilyKey(j) : j \in 1..k}
            /\ LET all == TokensFrom(metadata, 1, k) IN
               /\ Ascending(all)
               /\ Len(all) = Len(wanted)
               /\ \A i \in DOMAIN wanted :
                     Count(all, wanted[i]) = Count(wanted, wanted[i])

\* Witness of C9: a map of two keys or more with a value of several tokens.
C9_Witness ==
    /\ pc = "encoded"
    /\ Cardinality(DOMAIN metadata) >= 2
    /\ \E key \in DOMAIN metadata : Len(TokensOf(metadata[key])) >= 2

(***************************************************************************)
(* Properties of DiffMetadata (specification SpecDiff).                    *)
(***************************************************************************)
\* The keys a list holds.
KeysIn(list) == {list[i] : i \in DOMAIN list}

\* C4. Idempotence: DiffMetadata(M, M) returns no upsert and no delete, for a
\* map M with or without keys of the family.
C4_DiffSelfEmpty ==
    (pc = "diffed" /\ current = desired) =>
        /\ DOMAIN toUpdate = {}
        /\ toDelete = <<>>

\* Witness of C4: a diff of a map against itself, the map holding keys of the
\* family and a foreign key.
C4_Witness ==
    /\ pc = "diffed"
    /\ current = desired
    /\ {KeyAlias, KeyAlias2, KeyOther} \subseteq DOMAIN current

\* C5. Ownership: every key of the delete list starts with "landb-alias"; a key
\* of current without the prefix is never deleted, even when desired lacks it.
C5_DeleteOnlyFamily ==
    pc = "diffed" =>
        \A i \in DOMAIN toDelete :
            /\ Len(toDelete[i]) >= Len(landbAliasPrefix)
            /\ \A c \in DOMAIN landbAliasPrefix : toDelete[i][c] = landbAliasPrefix[c]

\* Witness of C5: current holds foreign keys that desired lacks, and the diff
\* deletes a key of the family.
C5_Witness ==
    /\ pc = "diffed"
    /\ {KeyOther, KeyLandb} \subseteq DOMAIN current
    /\ DOMAIN desired \cap {KeyOther, KeyLandb} = {}
    /\ toDelete # <<>>

\* C6. The diff, exactly: the upsert map holds the keys of desired that are
\* absent from current or differ there, with the desired value; the delete
\* list holds, once each, the keys of current with the prefix that desired
\* lacks; no key is in both.
C6_DiffExact ==
    pc = "diffed" =>
        /\ \A k \in DiffKeys :
              k \in DOMAIN toUpdate <=>
                  /\ k \in DOMAIN desired
                  /\ k \notin DOMAIN current \/ current[k] # desired[k]
        /\ DOMAIN toUpdate \subseteq DiffKeys
        /\ \A k \in DOMAIN toUpdate : toUpdate[k] = desired[k]
        /\ \A k \in DiffKeys :
              k \in KeysIn(toDelete) <=>
                  /\ k \in DOMAIN current
                  /\ k \in {KeyAlias, KeyAlias2}
                  /\ k \notin DOMAIN desired
        /\ KeysIn(toDelete) \subseteq DiffKeys
        /\ \A i, j \in DOMAIN toDelete : toDelete[i] = toDelete[j] => i = j
        /\ DOMAIN toUpdate \cap KeysIn(toDelete) = {}

\* Witness of C6: a diff that adds a key, changes a value, keeps a value and
\* deletes a key.
C6_Witness ==
    /\ pc = "diffed"
    /\ KeyAlias \in DOMAIN current /\ KeyAlias \in DOMAIN toUpdate
    /\ KeyOther \in DOMAIN current \cap DOMAIN desired /\ KeyOther \notin DOMAIN toUpdate
    /\ KeyLandb \in DOMAIN toUpdate /\ KeyLandb \notin DOMAIN current
    /\ toDelete = <<KeyAlias2>>

(***************************************************************************)
(* Properties of ParseEndpointsFromMetadata (specification SpecDecode).    *)
(***************************************************************************)
\* The marker "--load-" starts at offset pos of token t.
MarkerAt(t, pos) ==
    /\ pos >= 0
    /\ pos + Len(LoadMarker) <= Len(t)
    /\ \A c \in DOMAIN LoadMarker : t[pos + c] = LoadMarker[c]

\* The last marker of token t starts at offset pos.
LastMarkerAt(t, pos) ==
    /\ MarkerAt(t, pos)
    /\ \A later \in (pos + 1)..Len(t) : ~MarkerAt(t, later)

\* The names a metadata value carries: for each of its comma-separated tokens,
\* trimmed of white space, the text before the last marker.
NamesInValue(v) ==
    LET toks == Split(v, Comma) IN
    {SubSeq(TrimSpace(toks[x[1]]), 1, x[2]) :
        x \in {y \in (DOMAIN toks) \X (0..Len(v)) :
                  LastMarkerAt(TrimSpace(toks[y[1]]), y[2])}}

\* The names carried by the keys of the family on any of the servers.
NamesOnServers(servers) ==
    UNION {NamesInValue(servers[x[1]].Metadata[x[2]]) :
             x \in {y \in (DOMAIN servers) \X {KeyAlias, KeyAlias2} :
                       y[2] \in DOMAIN servers[y[1]].Metadata}}

\* C10. Parsing: the result holds one endpoint per distinct DNS name; the names
\* are exactly the texts before the last "--load-" of the trimmed tokens under
\* keys with the "landb-alias" prefix on any server; tokens without the marker
\* and keys without the prefix give nothing; a name found several times is
\* returned once.
C10_ParseNames ==
    pc = "parsed" =>
        /\ NamesOf(parsed) = NamesOnServers(nodes)
        /\ \A i, j \in DOMAIN parsed :
              parsed[i].DNSName = parsed[j].DNSName => i = j

\* The IDs of a server list.
IDsOf(list) == {list[i].ID : i \in DOMAIN list}

\* Whether FilterServers keeps a server under this label key.
Kept(server, key) == key = <<>> \/ key \in DOMAIN server.Metadata

\* C11. FilterServers returns the servers in ascending order of ID; it returns
\* every input server for an empty label key and otherwise exactly the servers
\* whose metadata has the key, each as often as in the input; when the IDs of
\* the input are distinct, every permutation of the input gives this very
\* result.
C11_FilterSorted ==
    pc = "filtered" =>
        /\ \A i \in 1..Len(filtered), j \in 1..Len(filtered) :
              i < j => ~StrLess(filtered[j].ID, filtered[i].ID)
        /\ \A server \in FilterPool :
              Count(filtered, server) =
                 IF Kept(server, labelKey) THEN Count(allServers, server) ELSE 0
        /\ Cardinality(IDsOf(allServers)) = Len(allServers) =>
              \A other \in Rearrangements(allServers) :
                 FilterServers(other, labelKey) = {filtered}

\* Two servers with distinct IDs arrive in descending order, a label key is
\* given that only some servers hold, and the result is not the input.
C11_Witness ==
    /\ pc = "filtered"
    /\ Len(allServers) = 2
    /\ StrLess(allServers[2].ID, allServers[1].ID)
    /\ labelKey = KeyOther
    /\ Len(filtered) = 2
    /\ filtered # allServers

\* Whether some A endpoint of the list has, at this node index, an alias token
\* that is by itself longer than a metadata value may be.
HasOversizedToken(eps, idx) ==
    \E i \in DOMAIN eps :
        IsA(eps[i]) /\ Len(TokenOf(eps[i], idx)) > maxMetadataLength

\* C13. Overflow is reported: GenerateMetadata hands back a map only when no
\* alias token is by itself longer than 254 bytes; for such a token the call
\* ends in an error and no map with a value above 254 bytes comes back.
C13_OverflowReported ==
    pc = "encoded" => ~HasOversizedToken(endpoints, nodeIndex)

(***************************************************************************)
(* Properties of the provider (specification Spec).                        *)
(***************************************************************************)
\* The part of a metadata map under the keys of the family.
Family(md) == [k \in {x \in DOMAIN md : HasPrefix(x, landbAliasPrefix)} |-> md[k]]

\* The part of a metadata map under all other keys.
Foreign(md) == [k \in {x \in DOMAIN md : ~HasPrefix(x, landbAliasPrefix)} |-> md[k]]

\* Whether the node at position i of the snapshot held, when it was listed, the
\* metadata the pass wants it to hold.
SnapshotMatches(r, i) ==
    Family(r.nodes[i].Metadata) = GenerateMetadata(i - 1, r.endpoints)

\* Whether the node at position i of the pass holds, now, the metadata the pass
\* wants it to hold.
StoreMatches(r, i) ==
    Family(store[r.nodes[i].ID]) = GenerateMetadata(i - 1, r.endpoints)

\* Whether SyncState has run and returned nil.
Synced(r) == r.pc = "done" /\ r.status = StatusNoContent /\ ~dryRun

\* C12. Node order: the node list GetIngressNodes returned is in ascending
\* order of server ID, whatever the order of the OpenStack listing.
C12_NodesSortedByID ==
    \A i \in 1..Len(pass[1].nodes), j \in 1..Len(pass[1].nodes) :
        i < j => StrLess(pass[1].nodes[i].ID, pass[1].nodes[j].ID)

\* C14. After SyncState(nodes, E) returned nil, every node i of the list holds
\* under the keys of the family exactly GenerateMetadata(i, E).
C14_SyncReachesDesired ==
    Synced(pass[1]) =>
        \A i \in 1..Len(pass[1].nodes) : StoreMatches(pass[1], i)

\* A pass over two nodes that upserted on both and deleted a key has returned
\* nil.
C14_Witness ==
    /\ Synced(pass[1])
    /\ Len(pass[1].nodes) = 2
    /\ \E c \in KeysIn(pass[1].log) : c.pos = 1 /\ c.op = "upsert"
    /\ \E c \in KeysIn(pass[1].log) : c.pos = 2 /\ c.op = "upsert"
    /\ \E c \in KeysIn(pass[1].log) : c.op = "delete"

\* C15. Frame: every key an upsert or a delete call names starts with
\* "landb-alias", and no step of a pass changes what a server holds under the
\* other keys.
C15_OnlyFamilyKeys ==
    [][/\ \A c \in KeysIn(pass'[1].log) :
             \A k \in c.keys : HasPrefix(k, landbAliasPrefix)
       /\ \A id \in ServerIDs : Foreign(store'[id]) = Foreign(store[id])]_vars

\* An aborted pass upserted on a node that also holds a foreign key.
C15_Witness ==
    /\ pass[1].pc = "done"
    /\ pass[1].status = StatusInternalServerError
    /\ \E c \in KeysIn(pass[1].log) :
          c.ok /\ c.op = "upsert" /\ DOMAIN Foreign(store[c.id]) # {}

\* C16. No needless call: a node whose snapshot already holds
\* GenerateMetadata(i, E) gets no upsert and no delete call; when that is so
\* for every node, the pass makes no call at all and returns nil.
C16_NoCallWhenEqual ==
    /\ \A c \in KeysIn(pass[1].log) : ~SnapshotMatches(pass[1], c.pos)
    /\ (/\ pass[1].pc = "done"
        /\ ~dryRun
        /\ pass[1].nodes # <<>>
        /\ \A i \in 1..Len(pass[1].nodes) : SnapshotMatches(pass[1], i))
       => pass[1].log = <<>> /\ pass[1].status = StatusNoContent

\* A pass found both nodes holding the aliases of a non-empty endpoint list
\* and returned nil without a call.
C16_Witness ==
    /\ Synced(pass[1])
    /\ Len(pass[1].nodes) = 2
    /\ \A i \in 1..2 : SnapshotMatches(pass[1], i)
    /\ pass[1].log = <<>>
    /\ \E i \in DOMAIN pass[1].endpoints : IsA(pass[1].endpoints[i])

\* C17. Abort: a failed call is the last call of its pass; the pass has ended
\* with an error, and every node after the failed one holds what it held when
\* the nodes were listed.
C17_AbortOnFailure ==
    \A n \in DOMAIN pass[1].log :
        ~pass[1].log[n].ok =>
            /\ n = Len(pass[1].log)
            /\ pass[1].pc = "done"
            /\ pass[1].status = StatusInternalServerError
            /\ \A j \in (pass[1].log[n].pos + 1)..Len(pass[1].nodes) :
                  store[pass[1].nodes[j].ID] = pass[1].nodes[j].Metadata

\* The first of two deletes on the first node failed: the second delete is
\* still due and the second node, which needed a change, was not touched.
C17_Witness ==
    /\ pass[1].pc = "done"
    /\ pass[1].log # <<>>
    /\ LET c == pass[1].log[Len(pass[1].log)]
       IN  ~c.ok /\ c.op = "delete" /\ c.pos = 1
    /\ Len(pass[1].toDelete) = 2
    /\ Len(pass[1].nodes) = 2
    /\ ~SnapshotMatches(pass[1], 2)

\* The DNS names ParseEndpointsFromMetadata reads from the nodes of a pass.
CurrentNames(r) == {TrimSuffixDot(d) : d \in UniqueDomains(r.nodes)}

\* The last endpoint of a list that has this DNS name.
LastNamed(eps, name) ==
    eps[CHOOSE i \in DOMAIN eps :
            /\ eps[i].DNSName = name
            /\ \A j \in DOMAIN eps : eps[j].DNSName = name => j <= i]

\* C19. Desired endpoints: the list SyncState receives has one endpoint per DNS
\* name; the names are the names decoded from the nodes, without those in
\* Delete and UpdateOld, together with those in UpdateNew and Create; a name of
\* UpdateNew or Create stands for its last endpoint in UpdateNew followed by
\* Create, any other name for an A endpoint.
C19_DesiredEndpoints ==
    pass[1].nodes # <<>> =>
        LET ch == changes[1]
            eps == pass[1].endpoints
            added == ch.UpdateNew \o ch.Create
            kept == CurrentNames(pass[1]) \ (NamesOf(ch.Delete) \cup NamesOf(ch.UpdateOld))
        IN  /\ NamesOf(eps) = kept \cup NamesOf(added)
            /\ Len(eps) = Cardinality(NamesOf(eps))
            /\ \A i \in DOMAIN eps :
                  eps[i] = IF eps[i].DNSName \in NamesOf(added)
                           THEN LastNamed(added, eps[i].DNSName)
                           ELSE NewEndpoint(eps[i].DNSName)

\* The nodes hold the name "a", Delete names it and Create names it again: the
\* name is in the list.
C19_Witness ==
    /\ pass[1].nodes # <<>>
    /\ NameA \in CurrentNames(pass[1])
    /\ NameA \in NamesOf(changes[1].Delete)
    /\ changes[1].Create = <<[DNSName |-> NameA, RecordType |-> RecordTypeA]>>
    /\ pass[1].endpoints = changes[1].Create

\* C20 as stated. Dry run: no step of a request changes the metadata of a
\* server or makes a call, and every request is answered with 204.
C20_DryRunAlways204 ==
    [][dryRun =>
          /\ store' = store
          /\ pass'[1].log = <<>>
          /\ pass'[1].pc = "done" => pass'[1].status = StatusNoContent]_vars

\* C20. Dry run: no step of a request changes the metadata of a server or makes
\* a call; a request whose node listing succeeded is answered with 204, one
\* whose node listing failed with 500.
C20_DryRunNoMutation ==
    [][dryRun =>
          /\ store' = store
          /\ pass'[1].log = <<>>
          /\ pass'[1].pc = "done" =>
                pass'[1].status = IF pass'[1].nodes # <<>> THEN StatusNoContent
                                  ELSE StatusInternalServerError]_vars

\* A dry run answered 204 although the first node does not hold what the
\* change set asks for.
C20_Witness ==
    /\ dryRun
    /\ pass[1].pc = "done"
    /\ pass[1].status = StatusNoContent
    /\ pass[1].nodes # <<>>
    /\ ~StoreMatches(pass[1], 1)
    /\ pass[1].log = <<>>

\* Whether every node of the last listing holds what the pass wants it to
\* hold.
Converged ==
    /\ pass[1].nodes # <<>>
    /\ \A i \in 1..Len(pass[1].nodes) : StoreMatches(pass[1], i)

\* C18. Retry: a pass without a failed call, after a pass that was aborted,
\* leaves every node i with GenerateMetadata(i, E) under the keys of the
\* family; once calls have stopped failing, the passes reach that state and
\* stay in it.
C18_RetryConverges ==
    /\ []((failures > 0 /\ Synced(pass[1])) => Converged)
    /\ <>[]Converged

\* A pass was aborted after the first node; the next pass found the first node
\* done and the second not, made its calls for the second node and returned
\* nil.
C18_Witness ==
    /\ failures > 0
    /\ Synced(pass[1])
    /\ Len(pass[1].nodes) = 2
    /\ SnapshotMatches(pass[1], 1)
    /\ DOMAIN Family(pass[1].nodes[1].Metadata) # {}
    /\ ~SnapshotMatches(pass[1], 2)
    /\ pass[1].log # <<>>
    /\ Converged

\* Whether the snapshot of the node at position i lacks a key of the desired
\* metadata or holds it with another value.
NeedsUpsert(r, i) ==
    \E k \in DOMAIN GenerateMetadata(i - 1, r.endpoints) :
        \/ k \notin DOMAIN r.nodes[i].Metadata
        \/ r.nodes[i].Metadata[k] # GenerateMetadata(i - 1, r.endpoints)[k]

\* C21. Upsert before delete: for a node that needs an upsert, every delete
\* call comes after an upsert call that returned without error; no upsert call
\* for a node follows a delete call for it, and no delete call for a node has
\* been made while its upsert is still to come.
C21_UpsertBeforeDelete ==
    LET r == pass[1] IN
    /\ \A j \in DOMAIN r.log :
          r.log[j].op = "delete" =>
             /\ \A i \in DOMAIN r.log :
                   (i > j /\ r.log[i].pos = r.log[j].pos) => r.log[i].op = "delete"
             /\ NeedsUpsert(r, r.log[j].pos) =>
                   \E i \in 1..(j - 1) :
                      /\ r.log[i].pos = r.log[j].pos
                      /\ r.log[i].op = "upsert"
                      /\ r.log[i].ok
    /\ r.pc = "upsert" =>
          \A c \in KeysIn(r.log) : c.pos = r.pos => c.op # "delete"

\* A node got an upsert and then a delete.
C21_Witness ==
    \E i \in DOMAIN pass[1].log, j \in DOMAIN pass[1].log :
        /\ i < j
        /\ pass[1].log[i].pos = pass[1].log[j].pos
        /\ pass[1].log[i].op = "upsert"
        /\ pass[1].log[j].op = "delete"
        /\ pass[1].log[j].ok

\* C22. One node after the other: the calls of a pass are made in ascending
\* order of node position, and while the pass works on the node at position j
\* every call it has made was for a position up to j.
C22_AscendingPositions ==
    LET r == pass[1] IN
    /\ \A i \in DOMAIN r.log, j \in DOMAIN r.log :
          i < j => r.log[i].pos <= r.log[j].pos
    /\ r.pc \in {"sync", "upsert", "delete"} =>
          \A c \in KeysIn(r.log) : c.pos <= r.pos

\* A pass has made calls for the first node and is about to call for the
\* second.
C22_Witness ==
    /\ pass[1].pc \in {"upsert", "delete"}
    /\ pass[1].pos = 2
    /\ \E c \in KeysIn(pass[1].log) : c.pos = 1

(***************************************************************************)
(* Properties of the handlers of /records (specification SpecServe).       *)
(***************************************************************************)
\* C23. Listing failure: when GetIngressNodes fails, ApplyChanges has no
\* nodes and no desired endpoints, makes no call, changes no metadata and
\* answers 500; Records answers 500 with no endpoints.
C23_ListingFailure ==
    [][failures' > failures =>
          /\ (pass[1].pc \in {"idle", "done"} /\ pass'[1] # pass[1]) =>
                /\ pass'[1].pc = "done"
                /\ pass'[1].status = StatusInternalServerError
                /\ pass'[1].nodes = <<>>
                /\ pass'[1].endpoints = <<>>
                /\ pass'[1].log = <<>>
                /\ store' = store
          /\ records' # records =>
                /\ records'.status = StatusInternalServerError
                /\ records'.endpoints = <<>>
                /\ store' = store
                /\ pass' = pass]_vars

\* The listing failed for an ApplyChanges request while servers hold aliases;
\* Records had answered with endpoints before.
C23_Witness ==
    /\ failures > 0
    /\ pass[1].pc = "done"
    /\ pass[1].status = StatusInternalServerError
    /\ pass[1].nodes = <<>>
    /\ \E id \in ServerIDs : DOMAIN Family(store[id]) # {}
    /\ records.status = StatusOK
    /\ records.endpoints # <<>>

(***************************************************************************)
(* Properties under cancellation (specification SpecCancel).               *)
(***************************************************************************)
\* C24. Cancellation: once the context of the request is done, no upsert and
\* no delete call goes through; no call made after that moment has changed
\* the metadata of a node.
C24_NoCallAfterCancel ==
    \A c \in KeysIn(pass[1].log) : ~(c.ctxDone /\ c.ok)

\* C25. The diff of node i is made against the metadata the node holds in the
\* store at the moment it is processed: the calls SyncState plans for a node
\* are the diff of the live metadata against the desired metadata.
C25_DiffAgainstLive ==
    [][(/\ pass[1].pc = "sync"
        /\ pass[1].pos <= Len(pass[1].nodes)
        /\ pass'[1] # pass[1])
       => \E res \in DiffMetadata(store[pass[1].nodes[pass[1].pos].ID],
                                  GenerateMetadata(pass[1].pos - 1, pass[1].endpoints)) :
             pass'[1] = FirstCall(pass[1], res[1], res[2])]_vars

\* The call the pass has logged in this step, as a set (empty when the step
\* logs no call).
NewCalls(p) ==
    IF Len(pass'[p].log) = Len(pass[p].log) + 1
    THEN {pass'[p].log[Len(pass'[p].log)]}
    ELSE {}

\* The metadata of the server after a successful call c of a pass that was to
\* upsert the map opts: the keys of the call hold what the call wrote, whatever
\* they held, and the other keys are untouched.
Written(md, c, opts) ==
    IF c.op = "upsert"
    THEN [k \in DOMAIN md \cup c.keys |-> IF k \in c.keys THEN opts[k] ELSE md[k]]
    ELSE [k \in DOMAIN md \ c.keys |-> md[k]]

\* C26. Overlapping passes are not serialized and the last call on a key
\* wins: whenever the metadata of a server changes, one pass has made one
\* successful call, and the server then holds exactly what that call wrote on
\* top of what it held, whichever pass wrote that.
C26_LastWriterWins ==
    [][store' # store =>
          \E p \in Requests : \E c \in NewCalls(p) :
             /\ c.ok
             /\ store' = [store EXCEPT ![c.id] = Written(@, c, pass[p].toUpdate)]]_vars

\* Both passes have answered 204 and the family metadata of the first node is
\* the desired map of neither.
C26_Witness ==
    /\ \A p \in Requests : pass[p].pc = "done" /\ pass[p].status = StatusNoContent
    /\ pass[1].nodes # <<>>
    /\ pass[2].nodes # <<>>
    /\ pass[1].nodes[1].ID = pass[2].nodes[1].ID
    /\ \A p \in Requests :
          Family(store[pass[p].nodes[1].ID]) # GenerateMetadata(0, pass[p].endpoints)

\* The endpoints of the address kind, in their order.
OnlyA(eps) == SelectSeq(eps, IsA)

\* The change set without its endpoints of other kinds.
AddressChanges(ch) ==
    [Create |-> OnlyA(ch.Create), UpdateOld |-> OnlyA(ch.UpdateOld),
     UpdateNew |-> OnlyA(ch.UpdateNew), Delete |-> OnlyA(ch.Delete)]

\* C27. Endpoints of another kind than A in the change set have no effect:
\* for every node, the desired metadata of the pass is the desired metadata
\* of the same pass for the change set without its non-A endpoints.
C27_NonAIgnored ==
    pass[1].nodes # <<>> =>
       \A cur \in ParseEndpointsFromMetadata(pass[1].nodes) :
          \A eps \in DesiredEndpoints(DesiredMap(cur, AddressChanges(changes[1]))) :
             \A i \in DOMAIN pass[1].nodes :
                GenerateMetadata(i - 1, pass[1].endpoints) = GenerateMetadata(i - 1, eps)

\* C28. No map GenerateMetadata returns has a key whose value is the empty
\* string, also for lists with a token longer than the cap.
C28_NoEmptyValue ==
    pc = "encoded" => \A k \in DOMAIN metadata : metadata[k] # <<>>

\* The places of the tokens in the family metadata of a server: key and
\* position in the value of the key.
TokenPlaces(md) ==
    UNION {{<<k, j>> : j \in DOMAIN TokensOf(md[k])} : k \in DOMAIN Family(md)}

\* C29. After a successful ApplyChanges no node holds the same alias token
\* twice in its family metadata.
C29_NoDuplicateToken ==
    Synced(pass[1]) =>
       \A i \in DOMAIN pass[1].nodes :
          \A md \in {store[pass[1].nodes[i].ID]} :
             \A x, y \in TokenPlaces(md) :
                TokensOf(md[x[1]])[x[2]] = TokensOf(md[y[1]])[y[2]] => x = y

\* The alias tokens a server holds.
TokensHeld(md) == {TokensOf(md[x[1]])[x[2]] : x \in TokenPlaces(md)}

\* C30. When no pass has failed, after a pass only the servers of the node
\* list of that pass hold keys of the family, and no two servers hold the
\* same alias token.
C30_TokensOnCurrentNodes ==
    (Synced(pass[1]) /\ failures = 0) =>
       /\ \A id \in ServerIDs \ IDsOf(pass[1].nodes) : DOMAIN Family(store[id]) = {}
       /\ \A id1, id2 \in ServerIDs :
             id1 # id2 => TokensHeld(store[id1]) \cap TokensHeld(store[id2]) = {}

====
